---------------------------- MODULE Spec2Model ----------------------------
(***************************************************************************)
(* Model of imap-clean-dup (src/main.go): FindDups streams the envelopes   *)
(* of one mailbox through a buffered channel, fingerprints each record     *)
(* and collects the UIDs of later-arriving duplicates; RemoveDups marks    *)
(* those UIDs \Deleted one by one and expunges the mailbox.                *)
(*                                                                         *)
(* Strings are modelled as sequences of byte values (ASCII codes), so the  *)
(* string builder, hash.Sum and base64 are computed as the code computes   *)
(* them.                                                                   *)
(***************************************************************************)
EXTENDS Integers, Sequences, FiniteSets, TLC

(***************************************************************************)
(* Bounds of the model.                                                    *)
(***************************************************************************)
\* largest mailbox (number of messages) that Init draws
MaxMsgs == 4
\* largest number of messages bearing \Deleted before the run
MaxPreFlagged == 1
\* capacity of msgChan in the scaled-down scan (SpecQueue), so that it fills up
SmallCap == 2

(***************************************************************************)
(* Program constants.                                                      *)
(***************************************************************************)
\* msgChan := make(chan *imap.Message, 1000)
MsgChanCap == 1000
\* errChan := make(chan error, 1)
ErrChanCap == 1

(***************************************************************************)
(* The literal role tags written by the string builder (main.go 132-160).  *)
(***************************************************************************)
TagDate == <<100, 97, 116, 101, 58>>
TagSubject == <<10, 115, 117, 98, 106, 101, 99, 116, 58>>
TagFrom == <<10, 102, 114, 111, 109, 58>>
TagSender == <<10, 115, 101, 110, 100, 101, 114, 58>>
TagReplyTo == <<10, 114, 101, 112, 108, 121, 45, 116, 111, 58>>
TagTo == <<10, 116, 111, 58>>
TagCc == <<10, 99, 99, 58>>
TagBcc == <<10, 98, 99, 99, 58>>
TagInReplyTo == <<10, 105, 110, 45, 114, 101, 112, 108, 121, 45, 116, 111, 58>>

(***************************************************************************)
(* msg.Envelope.Date.String(): time.Time printed with the layout           *)
(* "2006-01-02 15:04:05 -0700 MST" (envelope dates carry whole seconds).   *)
(* A date is [year, month, day, hour, min, sec, off, zone]: off is the     *)
(* zone offset in minutes, zone the zone abbreviation (empty for a fixed   *)
(* zone parsed from a numeric offset, which prints the offset again).      *)
(***************************************************************************)
RECURSIVE Pad(_, _)
Pad(n, w) == IF w = 0 THEN <<>> ELSE Pad(n \div 10, w - 1) \o <<48 + (n % 10)>>

ZoneNum(off) ==
    LET a == IF off < 0 THEN 0 - off ELSE off
    IN  <<IF off < 0 THEN 45 ELSE 43>> \o Pad(a \div 60, 2) \o Pad(a % 60, 2)

DateString(d) ==
    Pad(d.year, 4) \o <<45>> \o Pad(d.month, 2) \o <<45>> \o Pad(d.day, 2)
      \o <<32>> \o Pad(d.hour, 2) \o <<58>> \o Pad(d.min, 2) \o <<58>> \o Pad(d.sec, 2)
      \o <<32>> \o ZoneNum(d.off)
      \o <<32>> \o (IF d.zone = <<>> THEN ZoneNum(d.off) ELSE d.zone)

(***************************************************************************)
(* f.Address(): MailboxName "@" HostName; the personal name is not part    *)
(* of it.                                                                  *)
(***************************************************************************)
Address(f) == f.MailboxName \o <<64>> \o f.HostName

\* for _, f := range list { builder.WriteString(tag); builder.WriteString(f.Address()) }
RECURSIVE WriteAddresses(_, _)
WriteAddresses(tag, list) ==
    IF list = <<>> THEN <<>>
    ELSE tag \o Address(Head(list)) \o WriteAddresses(tag, Tail(list))

\* Variant of BuilderString that also writes the protocol message identifier.
BuilderStringWithMessageId(env) ==
    TagDate \o DateString(env.Date)
      \o TagSubject \o env.Subject
      \o WriteAddresses(TagFrom, env.From)
      \o WriteAddresses(TagSender, env.Sender)
      \o WriteAddresses(TagReplyTo, env.ReplyTo)
      \o WriteAddresses(TagTo, env.To)
      \o WriteAddresses(TagCc, env.Cc)
      \o WriteAddresses(TagBcc, env.Bcc)
      \o TagInReplyTo \o env.InReplyTo \o env.MessageId

\* the contents of the strings.Builder at main.go line 161
BuilderString(env) ==
    TagDate \o DateString(env.Date)
      \o TagSubject \o env.Subject
      \o WriteAddresses(TagFrom, env.From)
      \o WriteAddresses(TagSender, env.Sender)
      \o WriteAddresses(TagReplyTo, env.ReplyTo)
      \o WriteAddresses(TagTo, env.To)
      \o WriteAddresses(TagCc, env.Cc)
      \o WriteAddresses(TagBcc, env.Bcc)
      \o TagInReplyTo \o env.InReplyTo

(***************************************************************************)
(* hash := sha1.New(); hash.Sum(b): nothing is ever written to the hash,   *)
(* so Sum appends the SHA-1 digest of the empty input to b.                *)
(***************************************************************************)
Sha1OfEmpty ==
    <<218, 57, 163, 238, 94, 107, 75, 13, 50, 85,
      191, 239, 149, 96, 24, 144, 175, 216, 7, 9>>

HashSum(b) == b \o Sha1OfEmpty

(***************************************************************************)
(* base64.StdEncoding.EncodeToString                                       *)
(***************************************************************************)
B64Char(i) ==
    IF i < 26 THEN 65 + i
    ELSE IF i < 52 THEN 97 + (i - 26)
    ELSE IF i < 62 THEN 48 + (i - 52)
    ELSE IF i = 62 THEN 43 ELSE 47

RECURSIVE EncodeToString(_)
EncodeToString(b) ==
    IF Len(b) = 0 THEN <<>>
    ELSE IF Len(b) = 1 THEN
        <<B64Char(b[1] \div 4), B64Char((b[1] % 4) * 16), 61, 61>>
    ELSE IF Len(b) = 2 THEN
        <<B64Char(b[1] \div 4), B64Char((b[1] % 4) * 16 + (b[2] \div 16)),
          B64Char((b[2] % 16) * 4), 61>>
    ELSE
        <<B64Char(b[1] \div 4), B64Char((b[1] % 4) * 16 + (b[2] \div 16)),
          B64Char((b[2] % 16) * 4 + (b[3] \div 64)), B64Char(b[3] % 64)>>
          \o EncodeToString(SubSeq(b, 4, Len(b)))

(***************************************************************************)
(* The fingerprint of one record (main.go 122-163).                        *)
(***************************************************************************)
ContentHash(env) == EncodeToString(HashSum(BuilderString(env)))

\* Variant of Fingerprint without lines 125-127: the flag is not consulted.
FingerprintFlagIgnored(env, ignoreMsgID) ==
    LET messageID == env.MessageId
    IN  IF messageID = <<>> THEN ContentHash(env) ELSE messageID

Fingerprint(env, ignoreMsgID) ==
    LET messageID == IF ignoreMsgID THEN <<>> ELSE env.MessageId
    IN  IF messageID = <<>> THEN ContentHash(env) ELSE messageID

(***************************************************************************)
(* The envelopes the model draws from.                                     *)
(***************************************************************************)
Date1 == [year |-> 2020, month |-> 1, day |-> 2, hour |-> 3, min |-> 4, sec |-> 5,
          off |-> 0, zone |-> <<85, 84, 67>>]
Date2 == [year |-> 2020, month |-> 1, day |-> 2, hour |-> 3, min |-> 4, sec |-> 5,
          off |-> 0 - 90, zone |-> <<>>]

AddrX == [PersonalName |-> <<78>>, MailboxName |-> <<120>>, HostName |-> <<104>>]
AddrXOtherName == [PersonalName |-> <<77>>, MailboxName |-> <<120>>, HostName |-> <<104>>]
AddrY == [PersonalName |-> <<>>, MailboxName |-> <<121>>, HostName |-> <<104>>]

IdA == <<60, 97, 62>>
IdB == <<60, 98, 62>>

EnvBase ==
    [Date |-> Date1, Subject |-> <<115>>, From |-> <<AddrX>>, Sender |-> <<>>,
     ReplyTo |-> <<>>, To |-> <<AddrY>>, Cc |-> <<>>, Bcc |-> <<>>,
     InReplyTo |-> <<>>, MessageId |-> <<>>]

Envelopes ==
    { EnvBase,
      [EnvBase EXCEPT !.MessageId = IdA],
      [EnvBase EXCEPT !.MessageId = IdB],
      [EnvBase EXCEPT !.MessageId = IdA, !.Subject = <<116>>],
      [EnvBase EXCEPT !.Date = Date2],
      [EnvBase EXCEPT !.Subject = <<116>>],
      [EnvBase EXCEPT !.InReplyTo = <<60, 114, 62>>],
      [EnvBase EXCEPT !.InReplyTo = <<60, 114, 62>>, !.MessageId = IdA],
      [EnvBase EXCEPT !.From = <<AddrXOtherName>>],
      [EnvBase EXCEPT !.From = <<>>, !.Sender = <<AddrX>>],
      [EnvBase EXCEPT !.From = <<>>, !.ReplyTo = <<AddrX>>],
      [EnvBase EXCEPT !.To = <<AddrY, AddrX>>, !.From = <<>>],
      [EnvBase EXCEPT !.To = <<AddrX, AddrY>>, !.From = <<>>],
      [EnvBase EXCEPT !.To = <<>>, !.Cc = <<AddrY>>],
      [EnvBase EXCEPT !.To = <<>>, !.Bcc = <<AddrY>>],
      [EnvBase EXCEPT !.From = <<>>, !.To = <<>>,
                      !.Subject = <<115, 10, 102, 114, 111, 109, 58, 120, 64, 104,
                                    10, 116, 111, 58, 121, 64, 104>>] }

\* the envelopes of the messages of a mailbox
MailEnvelopes ==
    { [EnvBase EXCEPT !.MessageId = IdA],
      [EnvBase EXCEPT !.MessageId = IdB, !.Subject = <<116>>],
      [EnvBase EXCEPT !.Date = Date2],
      [EnvBase EXCEPT !.MessageId = IdA, !.Date = Date2] }

\* Fingerprint, computed once per envelope and mode
FingerprintOf ==
    [e \in Envelopes \cup MailEnvelopes, m \in BOOLEAN |-> Fingerprint(e, m)]


(***************************************************************************)
(* State.                                                                  *)
(***************************************************************************)
VARIABLES
    ignoreMessageID,  \* flag -ignore-message-id
    listOnlyDups,     \* flag -list-only-dups
    dryRun,           \* flag -dry-run
    mailbox,          \* the server's mailbox: sequence of [uid, env, deleted]
    initial,          \* the mailbox as it was when the run started
    requests,         \* the requests issued on the session, in order
    pc,               \* position of main / FindDups / RemoveDups
    ppc,              \* position of the goroutine started by FindDups
    msgChan,          \* buffered records of msgChan
    msgClosed,        \* msgChan has been closed
    errChan,          \* buffered values of errChan
    errClosed,        \* errChan has been closed
    err,              \* the named result err of FindDups, shared with the goroutine
    fetchErr,         \* what UidFetch returned ("pending" until it returns)
    sent,             \* number of records UidFetch has put on msgChan
    processed,        \* UIDs of the records the range loop has taken, in order
    uniqueIDs,        \* the map uniqueIDs (its key set)
    dups,             \* the slice dups
    uids,             \* main's uids
    mainErr,          \* main's err
    idx,              \* position of the range loop of RemoveDups in uids
    out,              \* classification lines printed by FindDups
    report,           \* lines printed by main
    fp                \* inputs and results of the fingerprint function on its own

vars == <<ignoreMessageID, listOnlyDups, dryRun, mailbox, initial, requests, pc, ppc,
          msgChan, msgClosed, errChan, errClosed, err, fetchErr, sent, processed,
          uniqueIDs, dups, uids, mainErr, idx, out, report, fp>>

flagVars == <<ignoreMessageID, listOnlyDups, dryRun>>
chanVars == <<msgChan, msgClosed, errChan, errClosed>>
scanVars == <<processed, uniqueIDs, dups, out>>

\* uid of the i-th message of the mailbox: ascending, not the sequence number
UidOf(i) == 10 * i

\* a request on the session; readOnly is the second argument of Select
Request(op, uid, result) ==
    [op |-> op, uid |-> uid, readOnly |-> FALSE, result |-> result]

\* c.Select(mbox, readOnly)
SelectRequest(readOnly, result) ==
    [op |-> "SELECT", uid |-> 0, readOnly |-> readOnly, result |-> result]

Outcome(ok) == IF ok THEN "ok" ELSE "fail"

\* server side of UID STORE +FLAGS.SILENT (\Deleted) for one uid
StoreDeleted(mb, uid) ==
    [i \in 1..Len(mb) |-> IF mb[i].uid = uid THEN [mb[i] EXCEPT !.deleted = TRUE] ELSE mb[i]]

\* server side of EXPUNGE: every message bearing \Deleted is removed
Expunged(mb) == SelectSeq(mb, LAMBDA m : ~m.deleted)

FpIdle == [e1 |-> EnvBase, e2 |-> EnvBase, ignore |-> FALSE, done |-> FALSE,
           out1 |-> <<>>, out2 |-> <<>>]

(***************************************************************************)
(* Init: flags parsed, session logged in, nothing requested yet.           *)
(***************************************************************************)
Init ==
    /\ ignoreMessageID \in BOOLEAN
    /\ listOnlyDups \in BOOLEAN
    /\ dryRun \in BOOLEAN
    /\ \E n \in 0..MaxMsgs :
         \E envs \in [1..n -> MailEnvelopes] :
           \E fl \in {s \in SUBSET (1..n) : Cardinality(s) <= MaxPreFlagged} :
             mailbox = [i \in 1..n |->
                          [uid |-> UidOf(i), env |-> envs[i], deleted |-> i \in fl]]
    /\ initial = mailbox
    /\ requests = <<>>
    /\ pc = "FindDups"
    /\ ppc = "idle"
    /\ msgChan = <<>>
    /\ msgClosed = FALSE
    /\ errChan = <<>>
    /\ errClosed = FALSE
    /\ err = "nil"
    /\ fetchErr = "pending"
    /\ sent = 0
    /\ processed = <<>>
    /\ uniqueIDs = {}
    /\ dups = <<>>
    /\ uids = <<>>
    /\ mainErr = "nil"
    /\ idx = 0
    /\ out = <<>>
    /\ report = <<>>
    /\ fp = FpIdle

(***************************************************************************)
(* FindDups, lines 97-116: select the mailbox, make the channels, start    *)
(* the goroutine.                                                          *)
(***************************************************************************)
\* Variant of FindDupsSelect that goes on when the selection fails.
FindDupsSelectUnchecked ==
    /\ pc = "FindDups"
    /\ \E ok \in BOOLEAN :
         /\ requests' = Append(requests, Request("SELECT", 0, Outcome(ok)))
         /\ pc' = "range"
         /\ ppc' = "start"
         /\ err' = IF ok THEN "nil" ELSE "ErrSelect"
         /\ UNCHANGED <<uids, mainErr>>
    /\ UNCHANGED <<flagVars, mailbox, initial, chanVars, fetchErr, sent, scanVars,
                   idx, report, fp>>

FindDupsSelect ==
    /\ pc = "FindDups"
    /\ \E ok \in BOOLEAN :
         /\ requests' = Append(requests, SelectRequest(FALSE, Outcome(ok)))
         /\ IF ok
            THEN /\ pc' = "range"
                 /\ ppc' = "start"
                 /\ err' = "nil"
                 /\ UNCHANGED <<uids, mainErr>>
            ELSE /\ pc' = "main"
                 /\ err' = "ErrSelect"
                 /\ uids' = <<>>
                 /\ mainErr' = "ErrSelect"
                 /\ UNCHANGED ppc
    /\ UNCHANGED <<flagVars, mailbox, initial, chanVars, fetchErr, sent, scanVars,
                   idx, report, fp>>

(***************************************************************************)
(* The goroutine, lines 110-116.  UidFetch puts the records of the mailbox *)
(* on msgChan in order, closes msgChan when it ends, and returns nil after *)
(* the last record or an error at any point.                               *)
(***************************************************************************)
ProducerFetchStart ==
    /\ ppc = "start"
    /\ requests' = Append(requests, Request("FETCH", 0, "issued"))
    /\ ppc' = "fetching"
    /\ UNCHANGED <<flagVars, mailbox, initial, pc, chanVars, err, fetchErr, sent,
                   scanVars, uids, mainErr, idx, report, fp>>

\* Variant of ProducerDeliverCap whose send goes through on a full channel.
ProducerDeliverCapOverrun(cap) ==
    /\ ppc = "fetching"
    /\ sent < Len(mailbox)
    /\ Len(msgChan) <= cap
    /\ msgChan' = Append(msgChan, [Uid |-> mailbox[sent + 1].uid,
                                   Envelope |-> mailbox[sent + 1].env])
    /\ sent' = sent + 1
    /\ UNCHANGED <<flagVars, mailbox, initial, requests, pc, ppc, msgClosed, errChan,
                   errClosed, err, fetchErr, scanVars, uids, mainErr, idx, report, fp>>

\* UidFetch sends the next record on a channel of capacity cap
ProducerDeliverCap(cap) ==
    /\ ppc = "fetching"
    /\ sent < Len(mailbox)
    /\ Len(msgChan) < cap
    /\ msgChan' = Append(msgChan, [Uid |-> mailbox[sent + 1].uid,
                                   Envelope |-> mailbox[sent + 1].env])
    /\ sent' = sent + 1
    /\ UNCHANGED <<flagVars, mailbox, initial, requests, pc, ppc, msgClosed, errChan,
                   errClosed, err, fetchErr, scanVars, uids, mainErr, idx, report, fp>>

ProducerDeliver == ProducerDeliverCap(MsgChanCap)

\* UidFetch closes msgChan and returns
ProducerFetchReturn ==
    /\ ppc = "fetching"
    /\ \E e \in {"nil", "ErrFetch"} :
         /\ e = "nil" => sent = Len(mailbox)
         /\ fetchErr' = e
    /\ msgClosed' = TRUE
    /\ ppc' = "returned"
    /\ UNCHANGED <<flagVars, mailbox, initial, requests, pc, msgChan, errChan,
                   errClosed, err, sent, scanVars, uids, mainErr, idx, report, fp>>

\* line 111: the goroutine assigns what UidFetch returned to err
ProducerAssignErr ==
    /\ ppc = "returned"
    /\ err' = fetchErr
    /\ ppc' = "fetched"
    /\ UNCHANGED <<flagVars, mailbox, initial, requests, pc, chanVars, fetchErr, sent,
                   scanVars, uids, mainErr, idx, report, fp>>

ProducerSendErr ==
    /\ ppc = "fetched"
    /\ err # "nil"
    /\ Len(errChan) < ErrChanCap
    /\ errChan' = Append(errChan, err)
    /\ ppc' = "closing"
    /\ UNCHANGED <<flagVars, mailbox, initial, requests, pc, msgChan, msgClosed,
                   errClosed, err, fetchErr, sent, scanVars, uids, mainErr, idx,
                   report, fp>>

\* Variant of ProducerCloseErr with close(errChan) inside the if block, after
\* the send only.
ProducerCloseErrAfterSendOnly ==
    /\ ppc = "closing"
    /\ errClosed' = TRUE
    /\ ppc' = "done"
    /\ UNCHANGED <<flagVars, mailbox, initial, requests, pc, msgChan, msgClosed,
                   errChan, err, fetchErr, sent, scanVars, uids, mainErr, idx,
                   report, fp>>

ProducerCloseErr ==
    /\ \/ ppc = "closing"
       \/ ppc = "fetched" /\ err = "nil"
    /\ errClosed' = TRUE
    /\ ppc' = "done"
    /\ UNCHANGED <<flagVars, mailbox, initial, requests, pc, msgChan, msgClosed,
                   errChan, err, fetchErr, sent, scanVars, uids, mainErr, idx,
                   report, fp>>

(***************************************************************************)
(* The range loop of FindDups, lines 121-183: one iteration.               *)
(***************************************************************************)
Line(msg, messageID, dup) == [uid |-> msg.Uid, fp |-> messageID, dup |-> dup]

\* Variant of ConsumerClassify that records the fingerprint before looking it up.
ConsumerClassifyInsertFirst ==
    /\ pc = "range"
    /\ msgChan # <<>>
    /\ LET msg == Head(msgChan)
           messageID == FingerprintOf[msg.Envelope, ignoreMessageID]
       IN  /\ msgChan' = Tail(msgChan)
           /\ processed' = Append(processed, msg.Uid)
           /\ uniqueIDs' = uniqueIDs \cup {messageID}
           /\ dups' = Append(dups, msg.Uid)
           /\ out' = Append(out, Line(msg, messageID, TRUE))
    /\ UNCHANGED <<flagVars, mailbox, initial, requests, pc, ppc, msgClosed, errChan,
                   errClosed, err, fetchErr, sent, uids, mainErr, idx, report, fp>>

\* Variant of ConsumerClassify that marks a duplicate \Deleted as soon as it is found.
ConsumerClassifyMarksAtOnce ==
    /\ pc = "range"
    /\ msgChan # <<>>
    /\ LET msg == Head(msgChan)
           messageID == FingerprintOf[msg.Envelope, ignoreMessageID]
           found == messageID \in uniqueIDs
       IN  /\ msgChan' = Tail(msgChan)
           /\ processed' = Append(processed, msg.Uid)
           /\ IF found
              THEN /\ dups' = Append(dups, msg.Uid)
                   /\ out' = Append(out, Line(msg, messageID, TRUE))
                   /\ requests' = Append(requests, Request("STORE", msg.Uid, "ok"))
                   /\ mailbox' = StoreDeleted(mailbox, msg.Uid)
                   /\ UNCHANGED uniqueIDs
              ELSE /\ uniqueIDs' = uniqueIDs \cup {messageID}
                   /\ out' = IF listOnlyDups THEN out
                             ELSE Append(out, Line(msg, messageID, FALSE))
                   /\ UNCHANGED <<dups, requests, mailbox>>
    /\ UNCHANGED <<flagVars, initial, pc, ppc, msgClosed, errChan,
                   errClosed, err, fetchErr, sent, uids, mainErr, idx, report, fp>>

\* Variant of ConsumerClassify whose -list-only-dups path skips a first-seen
\* record before its fingerprint is recorded.
ConsumerClassifyQuietSkips ==
    /\ pc = "range"
    /\ msgChan # <<>>
    /\ LET msg == Head(msgChan)
           messageID == FingerprintOf[msg.Envelope, ignoreMessageID]
           found == messageID \in uniqueIDs
       IN  /\ msgChan' = Tail(msgChan)
           /\ processed' = Append(processed, msg.Uid)
           /\ IF found
              THEN /\ dups' = Append(dups, msg.Uid)
                   /\ out' = Append(out, Line(msg, messageID, TRUE))
                   /\ UNCHANGED uniqueIDs
              ELSE /\ uniqueIDs' = IF listOnlyDups THEN uniqueIDs
                                   ELSE uniqueIDs \cup {messageID}
                   /\ out' = IF listOnlyDups THEN out
                             ELSE Append(out, Line(msg, messageID, FALSE))
                   /\ UNCHANGED dups
    /\ UNCHANGED <<flagVars, mailbox, initial, requests, pc, ppc, msgClosed, errChan,
                   errClosed, err, fetchErr, sent, uids, mainErr, idx, report, fp>>

\* Variant of ConsumerClassify that drops a fingerprint from the seen set when
\* a duplicate of it is found.
ConsumerClassifyForgets ==
    /\ pc = "range"
    /\ msgChan # <<>>
    /\ LET msg == Head(msgChan)
           messageID == FingerprintOf[msg.Envelope, ignoreMessageID]
           found == messageID \in uniqueIDs
       IN  /\ msgChan' = Tail(msgChan)
           /\ processed' = Append(processed, msg.Uid)
           /\ IF found
              THEN /\ dups' = Append(dups, msg.Uid)
                   /\ out' = Append(out, Line(msg, messageID, TRUE))
                   /\ uniqueIDs' = uniqueIDs \ {messageID}
              ELSE /\ uniqueIDs' = uniqueIDs \cup {messageID}
                   /\ out' = IF listOnlyDups THEN out
                             ELSE Append(out, Line(msg, messageID, FALSE))
                   /\ UNCHANGED dups
    /\ UNCHANGED <<flagVars, mailbox, initial, requests, pc, ppc, msgClosed, errChan,
                   errClosed, err, fetchErr, sent, uids, mainErr, idx, report, fp>>

ConsumerClassify ==
    /\ pc = "range"
    /\ msgChan # <<>>
    /\ LET msg == Head(msgChan)
           messageID == FingerprintOf[msg.Envelope, ignoreMessageID]
           found == messageID \in uniqueIDs
       IN  /\ msgChan' = Tail(msgChan)
           /\ processed' = Append(processed, msg.Uid)
           /\ IF found
              THEN /\ dups' = Append(dups, msg.Uid)
                   /\ out' = Append(out, Line(msg, messageID, TRUE))
                   /\ UNCHANGED uniqueIDs
              ELSE /\ uniqueIDs' = uniqueIDs \cup {messageID}
                   /\ out' = IF listOnlyDups THEN out
                             ELSE Append(out, Line(msg, messageID, FALSE))
                   /\ UNCHANGED dups
    /\ UNCHANGED <<flagVars, mailbox, initial, requests, pc, ppc, msgClosed, errChan,
                   errClosed, err, fetchErr, sent, uids, mainErr, idx, report, fp>>

\* Variant of ConsumerRangeEnd that leaves the loop as soon as msgChan is closed.
ConsumerRangeEndOnClose ==
    /\ pc = "range"
    /\ msgClosed
    /\ pc' = "recv_err"
    /\ UNCHANGED <<flagVars, mailbox, initial, requests, ppc, chanVars, err, fetchErr,
                   sent, scanVars, uids, mainErr, idx, report, fp>>

\* the range loop ends when msgChan is closed and empty
ConsumerRangeEnd ==
    /\ pc = "range"
    /\ msgChan = <<>>
    /\ msgClosed
    /\ pc' = "recv_err"
    /\ UNCHANGED <<flagVars, mailbox, initial, requests, ppc, chanVars, err, fetchErr,
                   sent, scanVars, uids, mainErr, idx, report, fp>>

\* Variant of ConsumerRecvErr that discards the value received from errChan.
ConsumerRecvErrDiscarded ==
    /\ pc = "recv_err"
    /\ errChan # <<>> \/ errClosed
    /\ err' = "nil"
    /\ mainErr' = "nil"
    /\ errChan' = IF errChan # <<>> THEN Tail(errChan) ELSE errChan
    /\ uids' = dups
    /\ pc' = "main"
    /\ UNCHANGED <<flagVars, mailbox, initial, requests, ppc, msgChan, msgClosed,
                   errClosed, fetchErr, sent, scanVars, idx, report, fp>>

\* Variant of ConsumerRecvErr that returns err as it stands after the loop,
\* without the receive from errChan.
ConsumerRecvErrNoReceive ==
    /\ pc = "recv_err"
    /\ mainErr' = err
    /\ uids' = dups
    /\ pc' = "main"
    /\ UNCHANGED <<flagVars, mailbox, initial, requests, ppc, chanVars, err,
                   fetchErr, sent, scanVars, idx, report, fp>>

\* lines 184-185: err = <-errChan; return dups, err
ConsumerRecvErr ==
    /\ pc = "recv_err"
    /\ errChan # <<>> \/ errClosed
    /\ LET v == IF errChan # <<>> THEN Head(errChan) ELSE "nil"
       IN  /\ err' = v
           /\ mainErr' = v
    /\ errChan' = IF errChan # <<>> THEN Tail(errChan) ELSE errChan
    /\ uids' = dups
    /\ pc' = "main"
    /\ UNCHANGED <<flagVars, mailbox, initial, requests, ppc, msgChan, msgClosed,
                   errClosed, fetchErr, sent, scanVars, idx, report, fp>>

(***************************************************************************)
(* main, lines 76-92.                                                      *)
(***************************************************************************)
\* Variant of MainAfterFindDups that does not consult -dry-run.
MainAfterFindDupsAlwaysRemoves ==
    /\ pc = "main"
    /\ IF mainErr # "nil"
       THEN /\ report' = Append(report, [text |-> "cannot find duplicates", n |-> 0])
            /\ pc' = "exit"
       ELSE /\ report' = Append(report, [text |-> "will remove", n |-> Len(uids)])
            /\ pc' = "RemoveDups"
    /\ UNCHANGED <<flagVars, mailbox, initial, requests, ppc, chanVars, err, fetchErr,
                   sent, scanVars, uids, mainErr, idx, fp>>

\* Variant of MainAfterFindDups that does not call RemoveDups with an empty list.
MainAfterFindDupsSkipsEmpty ==
    /\ pc = "main"
    /\ IF mainErr # "nil"
       THEN /\ report' = Append(report, [text |-> "cannot find duplicates", n |-> 0])
            /\ pc' = "exit"
       ELSE IF ~dryRun
       THEN /\ report' = Append(report, [text |-> "will remove", n |-> Len(uids)])
            /\ pc' = IF uids = <<>> THEN "exit" ELSE "RemoveDups"
       ELSE /\ report' = Append(report, [text |-> "would have removed", n |-> Len(uids)])
            /\ pc' = "exit"
    /\ UNCHANGED <<flagVars, mailbox, initial, requests, ppc, chanVars, err, fetchErr,
                   sent, scanVars, uids, mainErr, idx, fp>>

MainAfterFindDups ==
    /\ pc = "main"
    /\ IF mainErr # "nil"
       THEN /\ report' = Append(report, [text |-> "cannot find duplicates", n |-> 0])
            /\ pc' = "exit"
       ELSE IF ~dryRun
       THEN /\ report' = Append(report, [text |-> "will remove", n |-> Len(uids)])
            /\ pc' = "RemoveDups"
       ELSE /\ report' = Append(report, [text |-> "would have removed", n |-> Len(uids)])
            /\ pc' = "exit"
    /\ UNCHANGED <<flagVars, mailbox, initial, requests, ppc, chanVars, err, fetchErr,
                   sent, scanVars, uids, mainErr, idx, fp>>

MainAfterRemoveDups ==
    /\ pc = "removed"
    /\ report' = Append(report, IF mainErr # "nil"
                                THEN [text |-> "cannot find duplicates", n |-> 0]
                                ELSE [text |-> "done", n |-> 0])
    /\ pc' = "exit"
    /\ UNCHANGED <<flagVars, mailbox, initial, requests, ppc, chanVars, err, fetchErr,
                   sent, scanVars, uids, mainErr, idx, fp>>

(***************************************************************************)
(* RemoveDups, lines 188-204.                                              *)
(***************************************************************************)
RemoveDupsSelect ==
    /\ pc = "RemoveDups"
    /\ \E ok \in BOOLEAN :
         /\ requests' = Append(requests, SelectRequest(FALSE, Outcome(ok)))
         /\ IF ok
            THEN /\ pc' = "store"
                 /\ idx' = 1
                 /\ UNCHANGED mainErr
            ELSE /\ pc' = "removed"
                 /\ mainErr' = "ErrSelect"
                 /\ UNCHANGED idx
    /\ UNCHANGED <<flagVars, mailbox, initial, ppc, chanVars, err, fetchErr, sent,
                   scanVars, uids, report, fp>>

\* Variant of RemoveDupsStore that marks by position in the mailbox, not by uid.
RemoveDupsStoreByPosition ==
    /\ pc = "store"
    /\ idx <= Len(uids)
    /\ \E ok \in BOOLEAN :
         /\ requests' = Append(requests, Request("STORE", UidOf(idx), Outcome(ok)))
         /\ IF ok
            THEN /\ mailbox' = StoreDeleted(mailbox, UidOf(idx))
                 /\ idx' = idx + 1
                 /\ UNCHANGED <<pc, mainErr>>
            ELSE /\ pc' = "removed"
                 /\ mainErr' = "ErrStore"
                 /\ UNCHANGED <<mailbox, idx>>
    /\ UNCHANGED <<flagVars, initial, ppc, chanVars, err, fetchErr, sent, scanVars,
                   uids, report, fp>>

\* Variant of RemoveDupsStore that goes on to the next uid when a mark fails.
RemoveDupsStoreContinues ==
    /\ pc = "store"
    /\ idx <= Len(uids)
    /\ \E ok \in BOOLEAN :
         /\ requests' = Append(requests, Request("STORE", uids[idx], Outcome(ok)))
         /\ mailbox' = IF ok THEN StoreDeleted(mailbox, uids[idx]) ELSE mailbox
         /\ mainErr' = IF ok THEN mainErr ELSE "ErrStore"
         /\ idx' = idx + 1
         /\ UNCHANGED pc
    /\ UNCHANGED <<flagVars, initial, ppc, chanVars, err, fetchErr, sent, scanVars,
                   uids, report, fp>>

RemoveDupsStore ==
    /\ pc = "store"
    /\ idx <= Len(uids)
    /\ \E ok \in BOOLEAN :
         /\ requests' = Append(requests, Request("STORE", uids[idx], Outcome(ok)))
         /\ IF ok
            THEN /\ mailbox' = StoreDeleted(mailbox, uids[idx])
                 /\ idx' = idx + 1
                 /\ UNCHANGED <<pc, mainErr>>
            ELSE /\ pc' = "removed"
                 /\ mainErr' = "ErrStore"
                 /\ UNCHANGED <<mailbox, idx>>
    /\ UNCHANGED <<flagVars, initial, ppc, chanVars, err, fetchErr, sent, scanVars,
                   uids, report, fp>>

\* Variant of RemoveDupsExpunge that drops the result of the purge.
RemoveDupsExpungeResultDropped ==
    /\ pc = "store"
    /\ idx > Len(uids)
    /\ \E ok \in BOOLEAN :
         /\ requests' = Append(requests, Request("EXPUNGE", 0, Outcome(ok)))
         /\ mailbox' = IF ok THEN Expunged(mailbox) ELSE mailbox
         /\ mainErr' = "nil"
    /\ pc' = "removed"
    /\ UNCHANGED <<flagVars, initial, ppc, chanVars, err, fetchErr, sent, scanVars,
                   uids, idx, report, fp>>

\* Variant of RemoveDupsExpunge that may purge before the last uid is marked.
RemoveDupsExpungeEarly ==
    /\ pc = "store"
    /\ idx >= Len(uids)
    /\ \E ok \in BOOLEAN :
         /\ requests' = Append(requests, Request("EXPUNGE", 0, Outcome(ok)))
         /\ mailbox' = IF ok THEN Expunged(mailbox) ELSE mailbox
         /\ mainErr' = IF ok THEN "nil" ELSE "ErrExpunge"
    /\ pc' = "removed"
    /\ UNCHANGED <<flagVars, initial, ppc, chanVars, err, fetchErr, sent, scanVars,
                   uids, idx, report, fp>>

RemoveDupsExpunge ==
    /\ pc = "store"
    /\ idx > Len(uids)
    /\ \E ok \in BOOLEAN :
         /\ requests' = Append(requests, Request("EXPUNGE", 0, Outcome(ok)))
         /\ mailbox' = IF ok THEN Expunged(mailbox) ELSE mailbox
         /\ mainErr' = IF ok THEN "nil" ELSE "ErrExpunge"
    /\ pc' = "removed"
    /\ UNCHANGED <<flagVars, initial, ppc, chanVars, err, fetchErr, sent, scanVars,
                   uids, idx, report, fp>>

Next ==
    \/ FindDupsSelect
    \/ ProducerFetchStart
    \/ ProducerDeliver
    \/ ProducerFetchReturn
    \/ ProducerAssignErr
    \/ ProducerSendErr
    \/ ProducerCloseErr
    \/ ConsumerClassify
    \/ ConsumerRangeEnd
    \/ ConsumerRecvErr
    \/ MainAfterFindDups
    \/ RemoveDupsSelect
    \/ RemoveDupsStore
    \/ RemoveDupsExpunge
    \/ MainAfterRemoveDups

Spec == Init /\ [][Next]_vars

(***************************************************************************)
(* The scan on its own, from the call of FindDups to its return, with the  *)
(* capacity of msgChan scaled down to SmallCap so that the goroutine meets *)
(* a full channel.  The flags that FindDups does not read for its result   *)
(* are fixed and no message is flagged beforehand.                         *)
(***************************************************************************)
InitQueue ==
    /\ Init
    /\ dryRun
    /\ ~listOnlyDups
    /\ \A i \in 1..Len(mailbox) : ~mailbox[i].deleted

ProducerDeliverSmall == ProducerDeliverCap(SmallCap)

ProducerStep ==
    \/ ProducerFetchStart
    \/ ProducerDeliverSmall
    \/ ProducerFetchReturn
    \/ ProducerAssignErr
    \/ ProducerSendErr
    \/ ProducerCloseErr

ConsumerStep ==
    \/ FindDupsSelect
    \/ ConsumerClassify
    \/ ConsumerRangeEnd
    \/ ConsumerRecvErr

NextQueue ==
    \/ FindDupsSelect
    \/ ProducerFetchStart
    \/ ProducerDeliverSmall
    \/ ProducerFetchReturn
    \/ ProducerAssignErr
    \/ ProducerSendErr
    \/ ProducerCloseErr
    \/ ConsumerClassify
    \/ ConsumerRangeEnd
    \/ ConsumerRecvErr

SpecQueue == InitQueue /\ [][NextQueue]_vars

\* both goroutines are scheduled, and a fetch of a finite mailbox ends
SpecQueueLive ==
    InitQueue /\ [][NextQueue]_vars /\ WF_vars(ProducerStep) /\ WF_vars(ConsumerStep)

(***************************************************************************)
(* The fingerprint function on its own: two envelopes and a mode are drawn *)
(* and the function is applied to both.                                    *)
(***************************************************************************)
InitFp ==
    /\ fp \in [e1 : Envelopes, e2 : Envelopes, ignore : BOOLEAN, done : {FALSE},
               out1 : {<<>>}, out2 : {<<>>}]
    /\ ignoreMessageID = fp.ignore
    /\ listOnlyDups = FALSE
    /\ dryRun = TRUE
    /\ mailbox = <<>>
    /\ initial = <<>>
    /\ requests = <<>>
    /\ pc = "fingerprint"
    /\ ppc = "idle"
    /\ msgChan = <<>>
    /\ msgClosed = FALSE
    /\ errChan = <<>>
    /\ errClosed = FALSE
    /\ err = "nil"
    /\ fetchErr = "pending"
    /\ sent = 0
    /\ processed = <<>>
    /\ uniqueIDs = {}
    /\ dups = <<>>
    /\ uids = <<>>
    /\ mainErr = "nil"
    /\ idx = 0
    /\ out = <<>>
    /\ report = <<>>

FingerprintApply ==
    /\ pc = "fingerprint"
    /\ ~fp.done
    /\ fp' = [fp EXCEPT !.done = TRUE,
                        !.out1 = Fingerprint(fp.e1, ignoreMessageID),
                        !.out2 = Fingerprint(fp.e2, ignoreMessageID)]
    /\ UNCHANGED <<flagVars, mailbox, initial, requests, pc, ppc, chanVars, err,
                   fetchErr, sent, scanVars, uids, mainErr, idx, report>>

NextFp == FingerprintApply

SpecFp == InitFp /\ [][NextFp]_vars

(***************************************************************************)
(* Vocabulary of the properties.                                           *)
(***************************************************************************)
\* the fingerprint of the i-th record of the stream under the run's mode
FpAt(i) == FingerprintOf[initial[i].env, ignoreMessageID]

\* the i-th record has the fingerprint of a record that arrived earlier
LaterDup(i) == \E j \in 1..(i - 1) : FpAt(j) = FpAt(i)

\* the UIDs of the later-arriving duplicates among the first n records, in order
RECURSIVE ExpectedDups(_)
ExpectedDups(n) ==
    IF n = 0 THEN <<>>
    ELSE IF LaterDup(n) THEN Append(ExpectedDups(n - 1), initial[n].uid)
    ELSE ExpectedDups(n - 1)

Range(seq) == {seq[i] : i \in 1..Len(seq)}

\* FindDups has returned to main
FindDupsReturned == pc \in {"main", "RemoveDups", "store", "removed", "exit"}

\* RemoveDups has returned to main
RemoveDupsReturned ==
    \/ pc = "removed"
    \/ pc = "exit" /\ Len(report) = 2

\* the requests RemoveDups has issued (FindDups issued SELECT and FETCH before)
RemoveRequests ==
    IF Len(requests) > 2 THEN SubSeq(requests, 3, Len(requests)) ELSE <<>>

StoreRequests == SelectSeq(requests, LAMBDA r : r.op = "STORE")
ExpungeRequests == SelectSeq(requests, LAMBDA r : r.op = "EXPUNGE")

(***************************************************************************)
(* C1: when the fetch completes without error, FindDups returns exactly    *)
(* the UIDs of the records whose fingerprint equals the fingerprint of a   *)
(* record that arrived earlier in the stream, in arrival order: none       *)
(* other, none missing.                                                    *)
(***************************************************************************)
C1_FindDupsExact ==
    (pc = "main" /\ mainErr = "nil") =>
        /\ sent = Len(initial)
        /\ uids = ExpectedDups(sent)
        /\ \A i \in 1..sent : (initial[i].uid \in Range(uids)) <=> LaterDup(i)

C1_Witness ==
    /\ pc = "main"
    /\ mainErr = "nil"
    /\ sent = 4
    /\ uids = <<UidOf(2), UidOf(4)>>
    /\ FpAt(3) # FpAt(1)

(***************************************************************************)
(* C2: in a mailbox where no message bears \Deleted beforehand, FindDups   *)
(* followed by a successful RemoveDups leaves exactly one message per      *)
(* distinct fingerprint, the first-arriving one; the first-arriving        *)
(* message of a fingerprint is never marked or removed.                    *)
(***************************************************************************)
NoneFlaggedBefore == \A i \in 1..Len(initial) : ~initial[i].deleted

FirstArrivals ==
    LET F[n \in 0..Len(initial)] ==
            IF n = 0 THEN <<>>
            ELSE IF LaterDup(n) THEN F[n - 1] ELSE Append(F[n - 1], initial[n])
    IN  F[Len(initial)]

C2_EndToEnd ==
    NoneFlaggedBefore =>
        /\ \A i \in 1..Len(initial) :
              ~LaterDup(i) => \E k \in 1..Len(mailbox) : mailbox[k] = initial[i]
        /\ (RemoveDupsReturned /\ mainErr = "nil") =>
              /\ mailbox = FirstArrivals
              /\ \A k, l \in 1..Len(mailbox) :
                    FingerprintOf[mailbox[k].env, ignoreMessageID]
                      = FingerprintOf[mailbox[l].env, ignoreMessageID] => k = l
              /\ {FingerprintOf[mailbox[k].env, ignoreMessageID] : k \in 1..Len(mailbox)}
                    = {FpAt(i) : i \in 1..Len(initial)}

\* four messages, the second and the fourth share an identity, the rest differ
C2_Witness ==
    /\ NoneFlaggedBefore
    /\ Len(initial) = 4
    /\ FpAt(2) = FpAt(4)
    /\ Cardinality({FpAt(i) : i \in 1..4}) = 3
    /\ uids = <<UidOf(4)>>
    /\ pc = "exit"
    /\ mainErr = "nil"
    /\ ~dryRun
    /\ Len(mailbox) = 3

(***************************************************************************)
(* C3: if the stream delivers n records and the fetch then reports         *)
(* failure, FindDups has classified all n records when it reads the error  *)
(* channel, and returns the list computed from all n records together with *)
(* the failure.                                                            *)
(***************************************************************************)
DeliveredUids == [i \in 1..sent |-> initial[i].uid]

C3_DrainBeforeError ==
    /\ pc = "recv_err" =>
          /\ msgChan = <<>>
          /\ fetchErr # "pending"
          /\ processed = DeliveredUids
          /\ dups = ExpectedDups(sent)
    /\ (pc = "main" /\ fetchErr = "ErrFetch") =>
          /\ processed = DeliveredUids
          /\ uids = ExpectedDups(sent)
          /\ mainErr = "ErrFetch"

C3_Witness ==
    /\ pc = "main"
    /\ fetchErr = "ErrFetch"
    /\ sent = 3
    /\ Len(initial) = 4
    /\ uids = <<UidOf(2), UidOf(3)>>
    /\ mainErr = "ErrFetch"

(***************************************************************************)
(* C4: RemoveDups issues the mark requests one at a time in the order of   *)
(* the identifier list, each for one identifier, the next only after the   *)
(* previous one succeeded; at the first failing mark it issues no further  *)
(* mark and no purge.                                                      *)
(***************************************************************************)
C4_MarksSequential ==
    /\ Len(StoreRequests) <= Len(uids)
    /\ \A k \in 1..Len(StoreRequests) :
          /\ StoreRequests[k].uid = uids[k]
          /\ k < Len(StoreRequests) => StoreRequests[k].result = "ok"
    /\ \A k \in 1..Len(requests) :
          (requests[k].op = "STORE" /\ requests[k].result = "fail") =>
              /\ k = Len(requests)
              /\ pc \in {"removed", "exit"}
              /\ mainErr = "ErrStore"
    /\ \A k \in 1..Len(requests) :
          \A l \in 1..Len(requests) :
              (requests[k].op = "EXPUNGE" /\ requests[l].op = "STORE") =>
                  (l < k /\ requests[l].result = "ok")

\* three identifiers, the mark of the second fails
C4_Witness ==
    /\ uids = <<UidOf(2), UidOf(3), UidOf(4)>>
    /\ RemoveRequests = <<Request("SELECT", 0, "ok"),
                          Request("STORE", UidOf(2), "ok"),
                          Request("STORE", UidOf(3), "fail")>>
    /\ pc = "exit"

(***************************************************************************)
(* C5: RemoveDups returns success iff the selection, every mark and the    *)
(* purge all succeed.  After a mark failure every message marked earlier   *)
(* in the call still bears \Deleted and is still in the mailbox, and no    *)
(* request is issued twice.                                                *)
(***************************************************************************)
AllSucceeded ==
    /\ Len(RemoveRequests) = Len(uids) + 2
    /\ \A k \in 1..Len(RemoveRequests) : RemoveRequests[k].result = "ok"
    /\ RemoveRequests[1].op = "SELECT"
    /\ \A k \in 1..Len(uids) : RemoveRequests[k + 1] = Request("STORE", uids[k], "ok")
    /\ RemoveRequests[Len(uids) + 2].op = "EXPUNGE"

MarkFailed == \E k \in 1..Len(requests) :
                  requests[k].op = "STORE" /\ requests[k].result = "fail"

C5_RemoveResult ==
    /\ RemoveDupsReturned => (mainErr = "nil" <=> AllSucceeded)
    /\ MarkFailed =>
          /\ Len(mailbox) = Len(initial)
          /\ \A k \in 1..Len(StoreRequests) :
                StoreRequests[k].result = "ok" =>
                    \E i \in 1..Len(mailbox) :
                        mailbox[i].uid = StoreRequests[k].uid /\ mailbox[i].deleted
          /\ \A i \in 1..Len(mailbox) :
                mailbox[i].deleted =>
                    \/ initial[i].deleted
                    \/ \E k \in 1..Len(StoreRequests) :
                          StoreRequests[k] = Request("STORE", mailbox[i].uid, "ok")
    /\ \A k, l \in 1..Len(RemoveRequests) :
          (RemoveRequests[k].op = RemoveRequests[l].op
             /\ RemoveRequests[k].uid = RemoveRequests[l].uid) => k = l

C5_Witness ==
    /\ pc = "removed"
    /\ mainErr = "ErrStore"
    /\ Len(StoreRequests) = 3
    /\ Cardinality({i \in 1..Len(mailbox) : mailbox[i].deleted /\ ~initial[i].deleted}) = 2
    /\ Len(mailbox) = 4

(***************************************************************************)
(* C6: when every mark succeeds RemoveDups issues exactly one purge, after *)
(* the last mark; a purge that succeeds removes every message bearing      *)
(* \Deleted at that moment, i.e. the identifiers of the list and the       *)
(* messages flagged before the run.  A message that is neither in the list *)
(* nor flagged before the run is never removed.                            *)
(***************************************************************************)
AllMarked ==
    /\ Len(StoreRequests) = Len(uids)
    /\ \A k \in 1..Len(StoreRequests) : StoreRequests[k].result = "ok"

Kept(m) == ~m.deleted /\ m.uid \notin Range(uids)

C6_OnePurge ==
    /\ Len(ExpungeRequests) <= 1
    /\ Len(ExpungeRequests) = 1 =>
          /\ requests[Len(requests)].op = "EXPUNGE"
          /\ AllMarked
          /\ Len(RemoveRequests) = Len(uids) + 2
    /\ (RemoveDupsReturned /\ AllMarked /\ RemoveRequests[1].result = "ok") =>
          Len(ExpungeRequests) = 1
    /\ (Len(ExpungeRequests) = 1 /\ ExpungeRequests[1].result = "ok") =>
          mailbox = SelectSeq(initial, Kept)
    /\ \A i \in 1..Len(initial) :
          Kept(initial[i]) => \E k \in 1..Len(mailbox) : mailbox[k].uid = initial[i].uid

\* a purge that removed a listed message and a message flagged before the run
C6_Witness ==
    /\ pc = "exit"
    /\ Len(ExpungeRequests) = 1
    /\ ExpungeRequests[1].result = "ok"
    /\ Len(uids) = 2
    /\ \E i \in 1..Len(initial) : initial[i].deleted /\ initial[i].uid \notin Range(uids)
    /\ Len(initial) = 4
    /\ Len(mailbox) = 1

(***************************************************************************)
(* C7: with -dry-run no mark and no purge request is issued, whatever the  *)
(* Duplicate List contains, and the messages and their flags are           *)
(* unchanged.                                                              *)
(***************************************************************************)
C7_DryRun ==
    dryRun =>
        /\ mailbox = initial
        /\ \A k \in 1..Len(requests) : requests[k].op \notin {"STORE", "EXPUNGE"}
        /\ Len(requests) <= 2
        /\ pc \notin {"RemoveDups", "store", "removed"}

C7_Witness ==
    /\ dryRun
    /\ pc = "exit"
    /\ mainErr = "nil"
    /\ Len(uids) = 2
    /\ report = <<[text |-> "would have removed", n |-> 2]>>

(***************************************************************************)
(* C8: the fingerprint is the protocol message identifier verbatim when    *)
(* -ignore-message-id is not set and the identifier is non-empty, and only *)
(* then: when the flag is set or the identifier is empty the fingerprint   *)
(* is the encoded content string of the envelope, and it stays the same    *)
(* whatever identifier the envelope carries.                               *)
(***************************************************************************)
SameButMessageId(a, b) == [a EXCEPT !.MessageId = <<>>] = [b EXCEPT !.MessageId = <<>>]

UsesMessageId(e) == ~fp.ignore /\ e.MessageId # <<>>

C8_FingerprintPolicy ==
    fp.done =>
        /\ UsesMessageId(fp.e1) => fp.out1 = fp.e1.MessageId
        /\ UsesMessageId(fp.e2) => fp.out2 = fp.e2.MessageId
        /\ ~UsesMessageId(fp.e1) =>
              /\ fp.out1 = EncodeToString(HashSum(BuilderString(fp.e1)))
              /\ fp.out1 = EncodeToString(HashSum(BuilderString(
                                [fp.e1 EXCEPT !.MessageId = fp.e2.MessageId])))
        /\ (~UsesMessageId(fp.e1) /\ ~UsesMessageId(fp.e2)
              /\ SameButMessageId(fp.e1, fp.e2)) => fp.out1 = fp.out2

C8_Witness ==
    /\ fp.done
    /\ fp.ignore
    /\ fp.e1.MessageId = IdA
    /\ fp.e2.MessageId = IdB
    /\ SameButMessageId(fp.e1, fp.e2)
    /\ fp.out1 = fp.out2
    /\ fp.out1 # IdA

(***************************************************************************)
(* C9 as stated: in content-hash mode two envelopes with identical         *)
(* subject, identical timestamp string and identical address lists in      *)
(* every role have equal fingerprints, whatever their other fields are.    *)
(***************************************************************************)
SameHashedHeaders(a, b) ==
    /\ a.Subject = b.Subject
    /\ DateString(a.Date) = DateString(b.Date)
    /\ a.Sender = b.Sender
    /\ a.ReplyTo = b.ReplyTo
    /\ a.From = b.From
    /\ a.To = b.To
    /\ a.Cc = b.Cc
    /\ a.Bcc = b.Bcc

C9_Original ==
    (fp.done /\ fp.ignore /\ SameHashedHeaders(fp.e1, fp.e2)) => fp.out1 = fp.out2

(***************************************************************************)
(* C9 amended: in content-hash mode two envelopes with identical subject,  *)
(* identical timestamp string, identical address lists in every role and   *)
(* identical in-reply-to value have equal fingerprints, whatever their     *)
(* other fields are.                                                       *)
(***************************************************************************)
C9_SameContentSameFingerprint ==
    (fp.done /\ fp.ignore /\ SameHashedHeaders(fp.e1, fp.e2)
       /\ fp.e1.InReplyTo = fp.e2.InReplyTo) => fp.out1 = fp.out2

C9_Witness ==
    /\ fp.done
    /\ fp.ignore
    /\ fp.e1 # fp.e2
    /\ SameHashedHeaders(fp.e1, fp.e2)
    /\ fp.e1.InReplyTo = fp.e2.InReplyTo
    /\ fp.e1.InReplyTo # <<>>
    /\ fp.out1 = fp.out2

(***************************************************************************)
(* C10: a mailbox selection failure is returned at once.  FindDups returns *)
(* the failure with no Duplicate List and without starting the fetch or    *)
(* the goroutine; RemoveDups returns the failure without issuing a mark or *)
(* a purge request.                                                        *)
(***************************************************************************)
C10_SelectFailure ==
    /\ (Len(requests) >= 1 /\ requests[1].result = "fail") =>
          /\ requests = <<Request("SELECT", 0, "fail")>>
          /\ ppc = "idle"
          /\ sent = 0
          /\ processed = <<>>
          /\ uids = <<>>
          /\ mainErr = "ErrSelect"
          /\ pc \in {"main", "exit"}
          /\ mailbox = initial
    /\ (Len(requests) >= 3 /\ requests[3].result = "fail") =>
          /\ RemoveRequests = <<Request("SELECT", 0, "fail")>>
          /\ mainErr = "ErrSelect"
          /\ pc \in {"removed", "exit"}
          /\ mailbox = initial

C10_Witness ==
    /\ Len(requests) = 3
    /\ requests[3] = Request("SELECT", 0, "fail")
    /\ Len(uids) = 2
    /\ pc = "exit"
    /\ report = <<[text |-> "will remove", n |-> 2],
                  [text |-> "cannot find duplicates", n |-> 0]>>

(***************************************************************************)
(* C11: whenever the fetch reports an error FindDups returns a non-nil     *)
(* failure together with the list, and the program issues no mark and no   *)
(* purge request in that run.                                              *)
(***************************************************************************)
C11_FailedScanNotActedOn ==
    fetchErr = "ErrFetch" =>
        /\ \A k \in 1..Len(requests) : requests[k].op \notin {"STORE", "EXPUNGE"}
        /\ pc \notin {"RemoveDups", "store", "removed"}
        /\ mailbox = initial
        /\ pc \in {"main", "exit"} =>
              /\ mainErr = "ErrFetch"
              /\ uids = ExpectedDups(sent)

\* a truncated stream with a duplicate in it, removal asked for
C11_Witness ==
    /\ fetchErr = "ErrFetch"
    /\ pc = "exit"
    /\ ~dryRun
    /\ sent < Len(initial)
    /\ Len(uids) = 2
    /\ report = <<[text |-> "cannot find duplicates", n |-> 0]>>

(***************************************************************************)
(* C12: between entry to and return from FindDups no flag-mutation and no  *)
(* purge request is issued, so the messages and their \Deleted flags are   *)
(* the same after FindDups as before, on success and on failure.           *)
(***************************************************************************)
C12_ScanDoesNotMutate ==
    pc \in {"FindDups", "range", "recv_err", "main"} =>
        /\ mailbox = initial
        /\ \A k \in 1..Len(requests) : requests[k].op \in {"SELECT", "FETCH"}

C12_Witness ==
    /\ pc = "main"
    /\ mainErr = "nil"
    /\ ~dryRun
    /\ Len(uids) = 2
    /\ \E i \in 1..Len(initial) : initial[i].deleted
    /\ mailbox = initial

(***************************************************************************)
(* C13: -list-only-dups has no bearing on the result.  What FindDups       *)
(* returns is determined by the stream, the fingerprint mode and the       *)
(* outcome of the select and the fetch alone, so it is the same with the   *)
(* flag set and unset; the flag only decides which records get a           *)
(* classification line: every record when unset, the duplicates when set.  *)
(***************************************************************************)
LineUids == [k \in 1..Len(out) |-> out[k].uid]

C13_ListOnlyDupsNoBearing ==
    /\ pc = "main" =>
          /\ uids = IF requests[1].result = "fail" THEN <<>> ELSE ExpectedDups(sent)
          /\ mainErr = IF requests[1].result = "fail" THEN "ErrSelect" ELSE fetchErr
    /\ dups = ExpectedDups(Len(processed))
    /\ LineUids = IF listOnlyDups THEN dups ELSE processed
    /\ \A k \in 1..Len(out) : out[k].dup <=> out[k].uid \in Range(dups)

C13_Witness ==
    /\ listOnlyDups
    /\ pc = "main"
    /\ Len(processed) = 4
    /\ uids = <<UidOf(2), UidOf(4)>>
    /\ LineUids = uids

(***************************************************************************)
(* C14: for every finite stream, longer than the queue capacity included,  *)
(* and whether the fetch ends in success or in failure, FindDups           *)
(* eventually returns and the goroutine eventually terminates: the         *)
(* goroutine is never stuck sending on errChan, and the caller is never    *)
(* stuck on msgChan or errChan.  The goroutine does not exist when the     *)
(* selection failed.                                                       *)
(***************************************************************************)
C14_ScanTerminates ==
    /\ [](ppc = "fetched" /\ err # "nil" => Len(errChan) < ErrChanCap)
    /\ <>(pc = "main" /\ ppc \in {"idle", "done"})

\* a stream longer than the queue, fetched to the end
C14_Witness ==
    /\ pc = "main"
    /\ ppc = "done"
    /\ fetchErr = "nil"
    /\ sent = Len(initial)
    /\ sent > SmallCap
    /\ Len(processed) = sent

(***************************************************************************)
(* C15: under every interleaving msgChan never holds more records than its *)
(* capacity, the send is blocked while it is full and the range loop is    *)
(* blocked while it is empty, and the records classified so far followed   *)
(* by the records in the channel are the records delivered so far, in      *)
(* order: once FindDups returns every delivered record was classified      *)
(* exactly once, in the order delivered.                                   *)
(***************************************************************************)
QueuedUids == [k \in 1..Len(msgChan) |-> msgChan[k].Uid]

C15_BoundedHandoff ==
    /\ Len(msgChan) <= SmallCap
    /\ Len(msgChan) = SmallCap => ~ENABLED ProducerDeliverSmall
    /\ (pc = "range" /\ msgChan = <<>>) => ~ENABLED ConsumerClassify
    /\ (pc = "range" /\ msgChan = <<>> /\ ~msgClosed) => ~ENABLED ConsumerStep
    /\ processed \o QueuedUids = DeliveredUids
    /\ (pc = "main" /\ requests[1].result = "ok") => processed = DeliveredUids

\* the producer is blocked on a full channel with records left to send
C15_Witness ==
    /\ Len(msgChan) = SmallCap
    /\ ppc = "fetching"
    /\ sent < Len(initial)
    /\ Len(processed) >= 1

(***************************************************************************)
(* C16: a fingerprint enters uniqueIDs exactly once, when its first        *)
(* occurrence is processed, and never leaves it; after every               *)
(* classification step the size of uniqueIDs plus the length of dups is    *)
(* the number of records processed.                                        *)
(***************************************************************************)
ProcessedFingerprints == {FpAt(i) : i \in 1..Len(processed)}

C16_SeenSet ==
    /\ [](/\ uniqueIDs = ProcessedFingerprints
          /\ Cardinality(uniqueIDs) + Len(dups) = Len(processed))
    /\ [][/\ uniqueIDs \subseteq uniqueIDs'
          /\ uniqueIDs' # uniqueIDs =>
                /\ Len(processed') = Len(processed) + 1
                /\ uniqueIDs' = uniqueIDs \cup {FpAt(Len(processed'))}
                /\ ~LaterDup(Len(processed'))
                /\ dups' = dups]_vars

\* four records processed, two of them duplicates
C16_Witness ==
    /\ pc = "range"
    /\ Len(processed) = 4
    /\ Len(dups) = 2
    /\ Cardinality(uniqueIDs) = 2

(***************************************************************************)
(* C17: FindDups selects the mailbox in read-only mode before it starts    *)
(* the fetch: the first request of a run is a SELECT with readOnly set,    *)
(* and a FETCH comes only after that SELECT succeeded.                     *)
(***************************************************************************)
C17_SelectReadOnlyBeforeFetch ==
    /\ Len(requests) >= 1 =>
          /\ requests[1].op = "SELECT"
          /\ requests[1].readOnly
    /\ \A k \in 1..Len(requests) :
          requests[k].op = "FETCH" => k > 1 /\ requests[1].result = "ok"

(***************************************************************************)
(* C18 as stated: when -dry-run is not set and FindDups returns an empty   *)
(* list without error, no purge request is issued and no message is        *)
(* removed, the messages flagged \Deleted before the run included.         *)
(***************************************************************************)
EmptyListToRemove ==
    /\ ~dryRun
    /\ FindDupsReturned
    /\ requests[1].result = "ok"
    /\ fetchErr = "nil"
    /\ uids = <<>>

C18_Original ==
    EmptyListToRemove => ExpungeRequests = <<>> /\ mailbox = initial

(***************************************************************************)
(* C18 amended: when -dry-run is not set and FindDups returns an empty     *)
(* list without error, main still calls RemoveDups, which selects the      *)
(* mailbox and, when the selection succeeds, issues one purge request and  *)
(* no mark request; a purge that succeeds removes exactly the messages     *)
(* that bore \Deleted before the run, and no other message is removed.     *)
(***************************************************************************)
C18_EmptyListStillPurges ==
    EmptyListToRemove =>
        /\ StoreRequests = <<>>
        /\ ~RemoveDupsReturned => mailbox = initial /\ pc # "exit"
        /\ RemoveDupsReturned =>
              /\ Len(RemoveRequests) >= 1
              /\ RemoveRequests[1].op = "SELECT"
              /\ IF RemoveRequests[1].result = "fail"
                 THEN Len(RemoveRequests) = 1 /\ mailbox = initial
                 ELSE /\ Len(RemoveRequests) = 2
                      /\ RemoveRequests[2].op = "EXPUNGE"
                      /\ mailbox = IF RemoveRequests[2].result = "ok"
                                   THEN Expunged(initial)
                                   ELSE initial

\* nothing found, and the purge took a message flagged before the run
C18_Witness ==
    /\ EmptyListToRemove
    /\ pc = "exit"
    /\ Len(ExpungeRequests) = 1
    /\ Len(mailbox) < Len(initial)

(***************************************************************************)
(* C19: the goroutine and the caller never access err unordered: while     *)
(* the goroutine still has its write of err (line 111) or its test of err  *)
(* (line 112) ahead, the caller is neither at its own assignment of line   *)
(* 97 nor able to complete the receive of line 184, so every write by the  *)
(* goroutine is over before the caller receives; and FindDups returns the  *)
(* error of the fetch when the fetch failed and nil when it succeeded.     *)
(***************************************************************************)
ProducerErrAccessAhead == ppc \in {"start", "fetching", "returned", "fetched"}

C19_ErrOrdered ==
    /\ ProducerErrAccessAhead => pc # "FindDups" /\ ~ENABLED ConsumerRecvErr
    /\ (pc = "main" /\ requests[1].result = "ok") =>
          /\ fetchErr \in {"nil", "ErrFetch"}
          /\ mainErr = fetchErr
          /\ err = fetchErr

\* the caller has received the error while the goroutine is still running
C19_Witness ==
    /\ pc = "main"
    /\ ppc = "closing"
    /\ fetchErr = "ErrFetch"
    /\ mainErr = "ErrFetch"

(***************************************************************************)
(* C20: the content-derived fingerprint is injective on the hashed fields: *)
(* two envelopes that differ in the date string, the subject, the          *)
(* in-reply-to value or the ordered address list of some role get          *)
(* different fingerprints in content-hash mode, also when a subject holds  *)
(* a newline followed by a role tag.                                       *)
(***************************************************************************)
AddressStrings(list) == [k \in 1..Len(list) |-> Address(list[k])]

HashedFieldsDiffer(a, b) ==
    \/ DateString(a.Date) # DateString(b.Date)
    \/ a.Subject # b.Subject
    \/ a.InReplyTo # b.InReplyTo
    \/ AddressStrings(a.From) # AddressStrings(b.From)
    \/ AddressStrings(a.Sender) # AddressStrings(b.Sender)
    \/ AddressStrings(a.ReplyTo) # AddressStrings(b.ReplyTo)
    \/ AddressStrings(a.To) # AddressStrings(b.To)
    \/ AddressStrings(a.Cc) # AddressStrings(b.Cc)
    \/ AddressStrings(a.Bcc) # AddressStrings(b.Bcc)

C20_InjectiveOnHashedFields ==
    (fp.done /\ fp.ignore /\ HashedFieldsDiffer(fp.e1, fp.e2)) => fp.out1 # fp.out2

=============================================================================
